---- MODULE Spec2Model ----
(***************************************************************************)
(* Model of the LunchWith.ai manager client core:                          *)
(*   - the response unwrapping of LunchWithAPIClient.request               *)
(*     (client/src/lib/lunchWithApi.ts), its handling of every response    *)
(*     of fetch, and the read methods that call it,                        *)
(*   - the account resolution of CognitoAuthService                        *)
(*     (client/src/lib/cognitoAuth.ts) over localStorage.                  *)
(* Strings are sequences of one-character strings, so that the regular     *)
(* expressions, split/trim, parseInt/toString and JSON.stringify/parse     *)
(* are computed character by character as the JavaScript does.             *)
(***************************************************************************)
EXTENDS Integers, Sequences, FiniteSets, TLC

VARIABLES
    \* ---- LunchWithAPIClient.request ----
    endpoint,   \* the endpoint argument (sequence of characters)
    method,     \* the method argument
    results,    \* data.results of the parsed 2xx body
    returned,   \* what request() resolved with
    rpc,        \* "idle" before the call, "done" after it returned
    response,   \* the Response that fetch resolved with
    raised,     \* the error that request() threw, "none" if it returned
    api,        \* the public method of the client that made the request
    sent,       \* the request that request() handed to fetch
    handler,    \* onSessionExpired is set (setSessionExpiredHandler was called)
    handlerCalls, \* calls of onSessionExpired made by the current request
    app,        \* the state of App: isAuthenticated, loginDialogOpen and
                \* whether handleLoginSuccess awaits getCurrentSession
    \* ---- the forwarding proxy of the server ----
    req,        \* the incoming request of the route /api/lunchwith/*
    upstream,   \* the requests that the proxy made upstream for req
    relayed,    \* the response that the upstream gave to the proxy
    res,        \* the response that the route sent to the browser
    proxy,      \* "idle", "forwarded" (awaiting the upstream) or "replied"
    \* ---- CognitoAuthService and the stores it uses ----
    ls,         \* localStorage, the four STORAGE_KEYS
    session,    \* the Cognito session of the user pool (ID token payload)
    inFlight,   \* getCurrentSession calls whose getSession callback is pending
    last,       \* the last completed operation and its outcome
    switched,   \* the index of the last successful switch while the claim
                \* set is unchanged and nobody signed out, else -1
    again,      \* the last completed operation was a resolution that directly
                \* followed a resolution over the same claim set
    peak,       \* the most getSession callbacks pending at once since none
                \* was pending
    warned,     \* the last completed operation wrote the warning that the
                \* Cognito sub is used as the account id
    fresh,      \* getCurrentSession was called after the last successful
                \* switch
    signedOut   \* signOut ran and no resolution has completed since

vars ==
    <<endpoint, method, results, returned, rpc, response, raised, api,
      sent, handler, handlerCalls, app, req, upstream, relayed, res, proxy,
      ls, session, inFlight, last, switched, again, peak, warned, fresh,
      signedOut>>

\* the service, its stores and what is recorded of its history
AuthVars ==
    <<ls, session, inFlight, last, switched, again, peak, warned, fresh,
      signedOut>>

\* ------------------------------------------------------------------------
\* Bounds of the model
\* ------------------------------------------------------------------------
MaxPieces == 4      \* an endpoint is built of at most MaxPieces path pieces
MaxResults == 2     \* data.results holds at most MaxResults entities
MaxInFlight == 2    \* concurrent getCurrentSession calls
MaxSwitchIndex == 3 \* the largest index passed to switchUserAccount

\* ------------------------------------------------------------------------
\* Characters and string helpers
\* ------------------------------------------------------------------------
\* the quantifier {36} of both regular expressions of request()
UuidLen == 36

\* the status that request() reports as an expired session
Unauthorized == 401

\* the character class [a-f0-9-] under the i flag
HexChars ==
    {"a", "b", "c", "d", "e", "f", "A", "B", "C", "D", "E", "F",
     "0", "1", "2", "3", "4", "5", "6", "7", "8", "9", "-"}

\* String.prototype.includes
Includes(s, sub) ==
    \E i \in 1..(Len(s) - Len(sub) + 1) : SubSeq(s, i, i + Len(sub) - 1) = sub

\* String.prototype.startsWith
StartsWith(s, prefix) ==
    Len(s) >= Len(prefix) /\ SubSeq(s, 1, Len(prefix)) = prefix

RECURSIVE Concat(_)
Concat(ss) == IF ss = <<>> THEN <<>> ELSE Head(ss) \o Concat(Tail(ss))

\* ------------------------------------------------------------------------
\* LunchWithAPIClient.request: the unwrapping of { results: [...] }
\* ------------------------------------------------------------------------
Methods == {"GET", "POST", "PUT", "DELETE", "PATCH"}

\* [a-f0-9-]{36} matches at position i of s
UuidAt(s, i) ==
    /\ i + UuidLen - 1 <= Len(s)
    /\ \A k \in i..(i + UuidLen - 1) : s[k] \in HexChars

\* endpoint.match(/[a-f0-9-]{36}/gi): the leftmost non-overlapping matches,
\* each search starting where the previous match ended; the empty sequence
\* stands for the null that match() returns without a match
RECURSIVE ScanUuid(_, _)
ScanUuid(s, i) ==
    LET starts == {j \in i..Len(s) : UuidAt(s, j)}
    IN  IF starts = {} THEN <<>>
        ELSE LET j == CHOOSE k \in starts : \A l \in starts : k <= l
             IN  <<SubSeq(s, j, j + UuidLen - 1)>> \o ScanUuid(s, j + UuidLen)

uuidMatches(e) == ScanUuid(e, 1)

CastSegment == <<"/", "c", "a", "s", "t", "/">>

isCastEndpoint(e) == Includes(e, CastSegment)

\* endpoint.match(/\/[a-f0-9-]{36}$/i)
EndsWithSlashUuid(e) ==
    /\ Len(e) >= UuidLen + 1
    /\ e[Len(e) - UuidLen] = "/"
    /\ UuidAt(e, Len(e) - UuidLen + 1)

\* mutant: the trailing-id expression loses its $ anchor
isSpecificResource_unanchored(e) ==
    IF isCastEndpoint(e)
    THEN Len(uuidMatches(e)) = 2
    ELSE \E i \in 1..Len(e) : e[i] = "/" /\ UuidAt(e, i + 1)

\* mutant: cast endpoints are classified like every other endpoint
isSpecificResource_nocast(e) == EndsWithSlashUuid(e)

isSpecificResource(e) ==
    IF isCastEndpoint(e)
    THEN Len(uuidMatches(e)) = 2
    ELSE EndsWithSlashUuid(e)

\* what request() resolves with: a bare object or an array
AsObject(o) == [kind |-> "object", obj |-> o, arr |-> <<>>]
AsArray(a) == [kind |-> "array", obj |-> 0, arr |-> a]
NoValue == [kind |-> "none", obj |-> 0, arr |-> <<>>]

\* mutant: only PUT unwraps by method
Unwrap_putonly(e, m, rs) ==
    IF Len(rs) = 1 /\ (m = "PUT" \/ isSpecificResource(e))
    THEN AsObject(rs[1])
    ELSE AsArray(rs)

\* mutant: the first entity is returned whenever there is one
Unwrap_first(e, m, rs) ==
    IF Len(rs) >= 1 /\ (m = "PUT" \/ m = "POST" \/ isSpecificResource(e))
    THEN AsObject(rs[1])
    ELSE AsArray(rs)

\* mutant: a lone entity is returned bare whatever the endpoint is
Unwrap_lone(e, m, rs) ==
    IF Len(rs) = 1 THEN AsObject(rs[1]) ELSE AsArray(rs)

\* the return statement of the Array.isArray(results) branch
Unwrap(e, m, rs) ==
    IF Len(rs) = 1 /\ (m = "PUT" \/ m = "POST" \/ isSpecificResource(e))
    THEN AsObject(rs[1])
    ELSE AsArray(rs)

\* request() also resolves with null and with the literal true
AsNull == [kind |-> "null", obj |-> 0, arr |-> <<>>]
AsTrue == [kind |-> "true", obj |-> 0, arr |-> <<>>]

\* what JSON.parse gives for the body: null, the literal true, an object
\* without a results key (told apart by o), an array, or an object with the
\* results key
JsonTrue == [kind |-> "true", obj |-> 0, arr |-> <<>>, results |-> NoValue]
JsonNull == [kind |-> "null", obj |-> 0, arr |-> <<>>, results |-> NoValue]
JsonObject(o) ==
    [kind |-> "object", obj |-> o, arr |-> <<>>, results |-> NoValue]
JsonArray(a) == [kind |-> "array", obj |-> 0, arr |-> a, results |-> NoValue]
Envelope(v) == [kind |-> "envelope", obj |-> 0, arr |-> <<>>, results |-> v]

\* the body text of a response: empty, not JSON, or the JSON text of data
EmptyText == [kind |-> "empty", data |-> JsonNull]
MalformedText == [kind |-> "malformed", data |-> JsonNull]
JsonText(data) == [kind |-> "json", data |-> data]

\* the Response of fetch
Response(status, text) == [status |-> status, text |-> text]
NoResponse == Response(0, EmptyText)

\* the request that request() hands to fetch: the Authorization header is
\* always set, X-LWAI-User-Id is a header or absent
Fetch(e, m, header) ==
    [made |-> TRUE, endpoint |-> e, method |-> m, userId |-> header]
NoFetch ==
    [made |-> FALSE, endpoint |-> <<>>, method |-> "GET",
     userId |-> [has |-> FALSE, s |-> <<>>]]

\* the state of App before its effects have run
AppLoading ==
    [isAuthenticated |-> FALSE, loginDialogOpen |-> FALSE, checking |-> FALSE]

\* mutant: every request names the account
userIdHeader_always(e, userId) == [has |-> TRUE, s |-> userId]

\* headers["X-LWAI-User-Id"] of request(): set unless the endpoint starts
\* with /user/me
userIdHeader(e, userId) ==
    IF ~StartsWith(e, <<"/", "u", "s", "e", "r", "/", "m", "e">>)
    THEN [has |-> TRUE, s |-> userId]
    ELSE [has |-> FALSE, s |-> <<>>]

\* response.ok
IsOk(status) == status \in 200..299

\* how a call ends: it returns a value or it throws
Returned(v) == [raised |-> "none", value |-> v]
Thrown(error) == [raised |-> error, value |-> NoValue]

\* the operands of the test on data
Truthy(data) == data.kind # "null"
TypeofObject(data) == data.kind \in {"null", "object", "array", "envelope"}
ResultsIn(data) == data.kind = "envelope"

\* data as T
DataValue(data) ==
    IF data.kind = "null" THEN AsNull
    ELSE IF data.kind = "true" THEN AsTrue
    ELSE IF data.kind = "array" THEN AsArray(data.arr)
    ELSE AsObject(data.obj)

\* mutant: a body without the results key is read as an empty collection
Interpret_emptylist(e, m, data) ==
    IF Truthy(data) /\ TypeofObject(data) /\ ResultsIn(data)
    THEN IF data.results.kind = "array"
         THEN Returned(Unwrap(e, m, data.results.arr))
         ELSE Returned(data.results)
    ELSE IF data.kind = "object" THEN Returned(AsArray(<<>>))
    ELSE Returned(DataValue(data))

\* mutant: the test on data does not start with "data &&", so that the in
\* operator is applied to null
Interpret_noguard(e, m, data) ==
    IF TypeofObject(data) /\ ~Truthy(data) THEN Thrown("TypeError")
    ELSE IF TypeofObject(data) /\ ResultsIn(data)
    THEN IF data.results.kind = "array"
         THEN Returned(Unwrap(e, m, data.results.arr))
         ELSE Returned(data.results)
    ELSE Returned(DataValue(data))

\* the interpretation of the parsed body
Interpret(e, m, data) ==
    IF Truthy(data) /\ TypeofObject(data) /\ ResultsIn(data)
    THEN IF data.results.kind = "array"
         THEN Returned(Unwrap(e, m, data.results.arr))
         ELSE Returned(data.results)
    ELSE Returned(DataValue(data))

\* the error of a response that is not ok
StatusError(status) ==
    IF status = Unauthorized THEN "SessionExpired" ELSE "ApiRequestFailed"

\* mutant: the body is parsed before the status is looked at
Respond_parsefirst(e, m, resp) ==
    IF resp.text.kind = "malformed" THEN Thrown("SyntaxError")
    ELSE IF ~IsOk(resp.status) THEN Thrown(StatusError(resp.status))
    ELSE IF resp.text.kind = "empty" THEN Returned(AsNull)
    ELSE Interpret(e, m, resp.text.data)

\* request() from the moment fetch resolves
Respond(e, m, resp) ==
    IF ~IsOk(resp.status) THEN Thrown(StatusError(resp.status))
    ELSE IF resp.text.kind = "empty" THEN Returned(AsNull)
    ELSE IF resp.text.kind = "malformed" THEN Thrown("SyntaxError")
    ELSE Interpret(e, m, resp.text.data)

\* ------------------------------------------------------------------------
\* Inputs of request(): endpoints are concatenations of path pieces, as the
\* template strings of the client methods build them
\* ------------------------------------------------------------------------
Slash == <<"/">>
Word == <<"s", "c", "e", "n", "e">>
Query == <<"?", "x">>
HexChar == <<"a">>
Uuid ==
    <<"1", "1", "0", "6", "0", "7", "2", "E", "-", "f", "a", "0", "f", "-",
      "4", "4", "F", "4", "-", "8", "c", "0", "a", "-", "5", "4", "6", "6",
      "1", "C", "8", "4", "1", "1", "e", "1">>

Pieces == {CastSegment, Slash, Word, Query, HexChar, Uuid}
\* every endpoint of the client starts with a slash
FirstPieces == {CastSegment, Slash}

PieceLists ==
    UNION {{<<f>> \o t : f \in FirstPieces, t \in [1..n -> Pieces]} :
           n \in 0..(MaxPieces - 1)}

Endpoints == {Concat(p) : p \in PieceLists}

\* the entities of data.results, told apart by their position
ResultLists == {[i \in 1..n |-> i] : n \in 0..MaxResults}

\* the responses of the upstream: every body under a status that is ok, and
\* bodies of each sort under the statuses that are not
OkStatuses == {200, 201}
FailedStatuses == {Unauthorized, 404, 500}

\* an object of the upstream that is no envelope
PlainObject == 7

ParsedBodies ==
    {JsonNull, JsonTrue, JsonObject(PlainObject)}
    \cup {JsonArray(rs) : rs \in ResultLists}
    \cup {Envelope(AsArray(rs)) : rs \in ResultLists}
    \cup {Envelope(AsObject(PlainObject)), Envelope(AsNull)}

Texts == {EmptyText, MalformedText} \cup {JsonText(d) : d \in ParsedBodies}

FailedTexts ==
    {EmptyText, MalformedText, JsonText(JsonObject(PlainObject)),
     JsonText(Envelope(AsArray(<<1>>)))}

Responses ==
    {Response(st, t) : st \in OkStatuses, t \in Texts}
    \cup {Response(st, t) : st \in FailedStatuses, t \in FailedTexts}

\* the read methods of the client and the endpoints they request
Character == <<"c", "h", "a", "r", "a", "c", "t", "e", "r">>
Scene == <<"s", "c", "e", "n", "e">>
Story == <<"s", "t", "o", "r", "y">>
UserMe == <<"u", "s", "e", "r", "/", "m", "e">>
CastSuffix == <<"/", "c", "a", "s", "t">>
LowerUuid ==
    <<"3", "f", "2", "b", "8", "c", "1", "e", "-", "9", "d", "4", "a", "-",
      "4", "b", "6", "e", "-", "a", "1", "c", "7", "-", "0", "d", "5", "e",
      "8", "f", "9", "a", "2", "b", "3", "c">>

\* the identifiers that the pages pass to the methods
EntityIds == {Uuid, LowerUuid}

SingleReads == {"getCharacter", "getScene", "getUserProfile", "getUserAccount"}
CollectionReads ==
    {"getCharacters", "getScenes", "getCastMembers", "getStories",
     "getStoryCastLinks"}
ReadMethods == SingleReads \cup CollectionReads

EndpointOf(name, id) ==
    CASE name = "getCharacters" -> Slash \o Character \o Slash
      [] name = "getCharacter" -> Slash \o Character \o Slash \o id
      [] name = "getScenes" -> Slash \o Scene
      [] name = "getScene" -> Slash \o Scene \o Slash \o id
      [] name = "getCastMembers" -> CastSegment \o id
      [] name = "getUserProfile" -> Slash \o UserMe
      [] name = "getUserAccount" -> Slash \o UserMe \o Slash \o id
      [] name = "getStories" -> Slash \o Story \o Slash
      [] name = "getStoryCastLinks" -> Slash \o Story \o Slash \o id \o CastSuffix

\* ------------------------------------------------------------------------
\* JavaScript string and number conversions used by CognitoAuthService
\* ------------------------------------------------------------------------
WhiteSpace == {" "}

RECURSIVE TrimStart(_)
TrimStart(s) ==
    IF s # <<>> /\ Head(s) \in WhiteSpace THEN TrimStart(Tail(s)) ELSE s

RECURSIVE TrimEnd(_)
TrimEnd(s) ==
    IF s # <<>> /\ s[Len(s)] \in WhiteSpace
    THEN TrimEnd(SubSeq(s, 1, Len(s) - 1))
    ELSE s

\* String.prototype.trim
Trim(s) == TrimEnd(TrimStart(s))

\* String.prototype.split(','): cur is the segment being read
RECURSIVE SplitFrom(_, _)
SplitFrom(s, cur) ==
    IF s = <<>> THEN <<cur>>
    ELSE IF Head(s) = "," THEN <<cur>> \o SplitFrom(Tail(s), <<>>)
    ELSE SplitFrom(Tail(s), Append(cur, Head(s)))

Split(s) == SplitFrom(s, <<>>)

\* .map(s => s.trim()).filter(s => s)
RECURSIVE TrimAndDropEmpty(_)
TrimAndDropEmpty(segs) ==
    IF segs = <<>> THEN <<>>
    ELSE IF Trim(Head(segs)) = <<>> THEN TrimAndDropEmpty(Tail(segs))
    ELSE <<Trim(Head(segs))>> \o TrimAndDropEmpty(Tail(segs))

Digits == <<"0", "1", "2", "3", "4", "5", "6", "7", "8", "9">>

DigitValue(c) == (CHOOSE d \in 1..10 : Digits[d] = c) - 1

IsDigit(c) == \E d \in 1..10 : Digits[d] = c

\* Number.prototype.toString of an integer
RECURSIVE NatToString(_)
NatToString(n) ==
    IF n < 10 THEN <<Digits[n + 1]>>
    ELSE NatToString(n \div 10) \o <<Digits[(n % 10) + 1]>>

IntToString(n) == IF n < 0 THEN <<"-">> \o NatToString(0 - n) ELSE NatToString(n)

\* the leading digits of s, read as a number with the value acc so far
RECURSIVE ReadDigits(_, _)
ReadDigits(s, acc) ==
    IF s # <<>> /\ IsDigit(Head(s))
    THEN ReadDigits(Tail(s), 10 * acc + DigitValue(Head(s)))
    ELSE acc

NaN == [nan |-> TRUE, n |-> 0]
Num(k) == [nan |-> FALSE, n |-> k]

\* parseInt(s, 10): leading white space, an optional sign, then the longest
\* run of digits; NaN when there is no digit
parseInt(s) ==
    LET t == TrimStart(s)
        signed == t # <<>> /\ Head(t) \in {"-", "+"}
        body == IF signed THEN Tail(t) ELSE t
    IN  IF body = <<>> \/ ~IsDigit(Head(body)) THEN NaN
        ELSE IF signed /\ Head(t) = "-"
             THEN Num(0 - ReadDigits(body, 0))
             ELSE Num(ReadDigits(body, 0))

\* JSON.stringify of a string: quotes and backslashes are escaped
RECURSIVE JsonEscape(_)
JsonEscape(s) ==
    IF s = <<>> THEN <<>>
    ELSE IF Head(s) \in {"\"", "\\"}
         THEN <<"\\", Head(s)>> \o JsonEscape(Tail(s))
         ELSE <<Head(s)>> \o JsonEscape(Tail(s))

RECURSIVE JsonJoin(_)
JsonJoin(ids) ==
    IF ids = <<>> THEN <<>>
    ELSE <<"\"">> \o JsonEscape(Head(ids)) \o <<"\"">>
         \o (IF Tail(ids) = <<>> THEN <<>> ELSE <<",">>)
         \o JsonJoin(Tail(ids))

\* JSON.stringify of an array of strings
JsonStringify(ids) == <<"[">> \o JsonJoin(ids) \o <<"]">>

\* JSON.parse, for the texts of the model: arrays of strings. A result is
\* [ok, val, pos]: ok is FALSE where JSON.parse throws a SyntaxError.
JsonFail == [ok |-> FALSE, val |-> <<>>, pos |-> 0]

RECURSIVE SkipWs(_, _)
SkipWs(s, i) == IF i <= Len(s) /\ s[i] \in WhiteSpace THEN SkipWs(s, i + 1) ELSE i

\* the characters of a string literal from position i, after its opening quote
RECURSIVE JsonStringBody(_, _, _)
JsonStringBody(s, i, acc) ==
    IF i > Len(s) THEN JsonFail
    ELSE IF s[i] = "\"" THEN [ok |-> TRUE, val |-> acc, pos |-> i + 1]
    ELSE IF s[i] = "\\"
         THEN IF i + 1 <= Len(s) /\ s[i + 1] \in {"\"", "\\", "/"}
              THEN JsonStringBody(s, i + 2, Append(acc, s[i + 1]))
              ELSE JsonFail
    ELSE JsonStringBody(s, i + 1, Append(acc, s[i]))

\* the elements of an array from position i, where an element must start
RECURSIVE JsonElements(_, _, _)
JsonElements(s, i, acc) ==
    IF i > Len(s) \/ s[i] # "\"" THEN JsonFail
    ELSE LET str == JsonStringBody(s, i + 1, <<>>)
             j == SkipWs(s, str.pos)
         IN  IF ~str.ok \/ j > Len(s) THEN JsonFail
             ELSE IF s[j] = "]"
                  THEN [ok |-> TRUE, val |-> Append(acc, str.val), pos |-> j + 1]
             ELSE IF s[j] = ","
                  THEN JsonElements(s, SkipWs(s, j + 1), Append(acc, str.val))
             ELSE JsonFail

JsonParseArray(s) ==
    LET i == SkipWs(s, 1)
    IN  IF i > Len(s) \/ s[i] # "[" THEN JsonFail
        ELSE LET j == SkipWs(s, i + 1)
                 body == IF j <= Len(s) /\ s[j] = "]"
                         THEN [ok |-> TRUE, val |-> <<>>, pos |-> j + 1]
                         ELSE JsonElements(s, j, <<>>)
             IN  IF body.ok /\ SkipWs(s, body.pos) = Len(s) + 1
                 THEN body
                 ELSE JsonFail

\* ------------------------------------------------------------------------
\* CognitoAuthService: identity claims, localStorage and the resolution
\* ------------------------------------------------------------------------
\* localStorage.getItem() is null (None) or a string
None == [has |-> FALSE, s |-> <<>>]
Some(str) == [has |-> TRUE, s |-> str]

\* localStorage.getItem(key) || dflt
GetItemOr(item, dflt) == IF item.has /\ item.s # <<>> THEN item.s ELSE dflt

\* the four STORAGE_KEYS, all removed
EmptyStorage ==
    [username |-> None, userId |-> None,
     availableUserIds |-> None, selectedIndex |-> None]

\* a claim of the ID token payload: absent, a string or an array of strings
NoClaim == [t |-> "absent", s |-> <<>>, a |-> <<>>]
StrClaim(str) == [t |-> "string", s |-> str, a |-> <<>>]
ArrClaim(arr) == [t |-> "array", s |-> <<>>, a |-> arr]

\* idTokenPayload: custom:lwai_accounts, custom:user_id and sub
Payload(accounts, userId, sub) ==
    [accounts |-> accounts, userId |-> userId, sub |-> sub]

\* mutant: the JSON-array form is not tried, every string is split at commas
lwaiAccountIds_nojson(acc) ==
    IF acc.t = "string" /\ acc.s # <<>>
    THEN TrimAndDropEmpty(Split(Trim(acc.s)))
    ELSE IF acc.t = "array" THEN acc.a
    ELSE <<>>

\* mutant: a string in brackets that is no JSON array yields nothing
lwaiAccountIds_nofallback(acc) ==
    IF acc.t = "string" /\ acc.s # <<>>
    THEN LET trimmed == Trim(acc.s)
             parsed == JsonParseArray(trimmed)
         IN  IF StartsWith(trimmed, <<"[">>)
             THEN IF parsed.ok /\ Len(parsed.val) > 0 THEN parsed.val ELSE <<>>
             ELSE TrimAndDropEmpty(Split(trimmed))
    ELSE IF acc.t = "array" THEN acc.a
    ELSE <<>>

\* the identifiers that the custom:lwai_accounts branch returns; the empty
\* sequence when the branch returns nothing and the code falls through
lwaiAccountIds(acc) ==
    IF acc.t = "string" /\ acc.s # <<>>
    THEN LET trimmed == Trim(acc.s)
             parsed == JsonParseArray(trimmed)
         IN  IF StartsWith(trimmed, <<"[">>) /\ parsed.ok /\ Len(parsed.val) > 0
             THEN parsed.val
             ELSE TrimAndDropEmpty(Split(trimmed))
    ELSE IF acc.t = "array" THEN acc.a
    ELSE <<>>

extractAllLwaiUserIds(p) ==
    IF lwaiAccountIds(p.accounts) # <<>> THEN lwaiAccountIds(p.accounts)
    ELSE IF p.userId.has /\ p.userId.s # <<>> THEN <<p.userId.s>>
    ELSE <<p.sub>>

Min(a, b) == IF a < b THEN a ELSE b
Max(a, b) == IF a > b THEN a ELSE b

\* what setItem() stores for, and a read past the end of an array gives:
\* undefined
Undefined == <<"u", "n", "d", "e", "f", "i", "n", "e", "d">>

\* availableUserIds[i] of a JavaScript array
At(ids, i) == IF (i + 1) \in DOMAIN ids THEN ids[i + 1] ELSE Undefined

\* mutant: the stored index is not read
selectedIndexOf_ignored(store) == 0

\* storedIndex and selectedIndex of signIn and getCurrentSession
selectedIndexOf(store) ==
    LET storedIndex == parseInt(GetItemOr(store.selectedIndex, <<"0">>))
    IN  IF storedIndex.nan THEN 0 ELSE storedIndex.n

\* mutant: an index out of range is replaced by 0
safeIndexOf_zero(selectedIndex, n) ==
    IF selectedIndex \in 0..(n - 1) THEN selectedIndex ELSE 0

\* mutant: the upper clamp is missing
safeIndexOf_nomin(selectedIndex, n) == Max(0, selectedIndex)

\* Math.min(Math.max(0, selectedIndex), availableUserIds.length - 1)
safeIndexOf(selectedIndex, n) == Min(Max(0, selectedIndex), n - 1)

\* mutant: the warning is written whenever custom:lwai_accounts gave no id
subjectWarning_early(p) == lwaiAccountIds(p.accounts) = <<>>

\* whether extractAllLwaiUserIds reaches its console.warn: neither
\* custom:lwai_accounts nor custom:user_id made it return
subjectWarning(p) ==
    /\ lwaiAccountIds(p.accounts) = <<>>
    /\ ~(p.userId.has /\ p.userId.s # <<>>)

\* mutant: every resolution selects the first account
Resolve_first(p, store) ==
    LET ids == extractAllLwaiUserIds(p)
    IN  [availableUserIds |-> ids, safeIndex |-> 0, userId |-> At(ids, 0)]

\* the resolution shared by signIn (onSuccess) and getCurrentSession
Resolve(p, store) ==
    LET ids == extractAllLwaiUserIds(p)
        safeIndex == safeIndexOf(selectedIndexOf(store), Len(ids))
    IN  [availableUserIds |-> ids,
         safeIndex |-> safeIndex,
         userId |-> At(ids, safeIndex)]

\* mutant: the index is persisted counted from one
StoreResolved_onebased(store, r) ==
    [store EXCEPT !.userId = Some(r.userId),
                  !.availableUserIds = Some(JsonStringify(r.availableUserIds)),
                  !.selectedIndex = Some(IntToString(r.safeIndex + 1))]

\* mutant: the index is persisted as it was read, before the clamp
StoreResolved_rawindex(store, r) ==
    [store EXCEPT !.userId = Some(r.userId),
                  !.availableUserIds = Some(JsonStringify(r.availableUserIds)),
                  !.selectedIndex = Some(IntToString(selectedIndexOf(store)))]

\* mutant: the index key is not written
StoreResolved_noindex(store, r) ==
    [store EXCEPT !.userId = Some(r.userId),
                  !.availableUserIds = Some(JsonStringify(r.availableUserIds))]

\* the three setItem calls that both resolutions make
StoreResolved(store, r) ==
    [store EXCEPT !.userId = Some(r.userId),
                  !.availableUserIds = Some(JsonStringify(r.availableUserIds)),
                  !.selectedIndex = Some(IntToString(r.safeIndex))]

\* JSON.parse(localStorage.getItem(AVAILABLE_USER_IDS) || '[]')
storedUserIds(store) ==
    JsonParseArray(GetItemOr(store.availableUserIds, <<"[", "]">>))

\* mutant: the upper bound of the check is off by one
invalidIndex_offbyone(index, n) == index < 0 \/ index > n

\* mutant: the lower bound of the check is missing
invalidIndex_nolower(index, n) == index >= n

\* the check of switchUserAccount
invalidIndex(index, n) == index < 0 \/ index >= n

\* the Cognito session of the user pool: whether the pool has a current
\* user, whether its session is valid, and the payload of its ID token
NoSession ==
    [user |-> FALSE, valid |-> FALSE, payload |-> Payload(NoClaim, None, <<>>)]
ValidSession(p) == [user |-> TRUE, valid |-> TRUE, payload |-> p]

\* the outcome of the last operation of the service, with the values it read
\* and computed
Outcome(op, outcome, arg, stored, r) ==
    [op |-> op, outcome |-> outcome, arg |-> arg, stored |-> stored,
     safeIndex |-> r.safeIndex, userId |-> r.userId,
     availableUserIds |-> r.availableUserIds]
NoResolution == [availableUserIds |-> <<>>, safeIndex |-> 0, userId |-> <<>>]
NoOutcome == Outcome("none", "none", 0, None, NoResolution)

\* ------------------------------------------------------------------------
\* Inputs of the service
\* ------------------------------------------------------------------------
IdA == <<"a">>
IdC == <<"c">>
IdE == <<"e">>
UserIdClaim == <<"u">>
SubClaim == <<"s">>
Usernames == {<<"a", "l">>}

Quoted(id) == <<"\"">> \o id \o <<"\"">>

\* values of custom:lwai_accounts in its three encodings, well and ill formed
AccountClaims ==
    {NoClaim,
     StrClaim(<<>>), StrClaim(<<" ">>), StrClaim(<<",">>),
     StrClaim(<<" ", ",", " ">>),
     StrClaim(IdA), StrClaim(<<" ">> \o IdA \o <<" ">>),
     StrClaim(IdA \o <<",">> \o IdC),
     StrClaim(IdC \o <<",">> \o IdA),
     StrClaim(IdA \o <<",", " ">> \o IdC \o <<",", ",">> \o IdE),
     StrClaim(<<"[", "]">>), StrClaim(<<" ", "[", " ", "]">>),
     StrClaim(<<"[">> \o Quoted(IdA) \o <<"]">>),
     StrClaim(<<"[">> \o Quoted(IdA) \o <<",">> \o Quoted(IdC) \o <<"]">>),
     StrClaim(<<"[">> \o Quoted(IdC) \o <<",", " ">> \o Quoted(IdA) \o <<"]">>),
     StrClaim(<<"[">> \o Quoted(IdA)),
     StrClaim(<<"[">> \o IdA \o <<",">> \o IdC \o <<"]">>),
     ArrClaim(<<>>), ArrClaim(<<IdA>>), ArrClaim(<<IdA, IdC>>),
     ArrClaim(<<IdC, IdA>>)}

ClaimPayloads ==
    {Payload(acc, uid, SubClaim) :
        acc \in AccountClaims, uid \in {None, Some(UserIdClaim)}}

\* the accounts of the users that sign in: three, two, one and no account id
Payloads ==
    {Payload(StrClaim(IdA \o <<",">> \o IdC \o <<",">> \o IdE), None, SubClaim),
     Payload(StrClaim(<<"[">> \o Quoted(IdC) \o <<",">> \o Quoted(IdA) \o <<"]">>),
             Some(UserIdClaim), SubClaim),
     Payload(NoClaim, Some(UserIdClaim), SubClaim),
     Payload(NoClaim, None, SubClaim)}

\* the index arguments of switchUserAccount
SwitchIndexes == (0 - 1)..MaxSwitchIndex

\* what the selected-index key may hold when the page loads
StoredIndexes ==
    {None, Some(<<>>), Some(<<"0">>), Some(<<"1">>), Some(<<"2">>),
     Some(<<"3">>), Some(<<"7">>), Some(<<"-", "1">>), Some(<<"x">>),
     Some(<<"N", "a", "N">>), Some(<<"1", "x">>), Some(<<" ", "2">>)}

\* ------------------------------------------------------------------------
\* The forwarding proxy of the server: the route /api/lunchwith/* and
\* proxyToLunchWithAPI
\* ------------------------------------------------------------------------
ProxyVars == <<req, upstream, relayed, res, proxy>>

ApiPrefix ==
    <<"/", "a", "p", "i", "/", "l", "u", "n", "c", "h", "w", "i", "t", "h">>

\* a header of the incoming request is None or Some(value); the tests
\* !authHeader and if (userId) take the empty value for a missing one
TruthyHeader(h) == h.has /\ h.s # <<>>

\* req.body: undefined, or the value that a body parser left there
NoBody == [has |-> FALSE, val |-> 0]
Body(v) == [has |-> TRUE, val |-> v]

\* the incoming request
Incoming(m, url, authorization, userId, body) ==
    [received |-> TRUE, method |-> m, url |-> url,
     authorization |-> authorization, userId |-> userId, body |-> body]

\* mutant: every occurrence of the prefix is removed
endpointOfUrl_all(url) ==
    LET RECURSIVE Strip(_)
        Strip(t) ==
            IF t = <<>> THEN <<>>
            ELSE IF StartsWith(t, ApiPrefix)
            THEN Strip(SubSeq(t, Len(ApiPrefix) + 1, Len(t)))
            ELSE <<Head(t)>> \o Strip(Tail(t))
    IN  Strip(url)

\* req.url.replace("/api/lunchwith", ""): the first occurrence is removed
endpointOfUrl(url) ==
    LET starts == {i \in 1..(Len(url) - Len(ApiPrefix) + 1) :
                      SubSeq(url, i, i + Len(ApiPrefix) - 1) = ApiPrefix}
    IN  IF starts = {} THEN url
        ELSE LET i == CHOOSE k \in starts : \A l \in starts : k <= l
             IN  SubSeq(url, 1, i - 1)
                 \o SubSeq(url, i + Len(ApiPrefix), Len(url))

methodsWithBody == {"PUT", "POST", "PATCH"}

\* mutant: only GET goes without its body
forwardedBody_notget(m, body) ==
    IF body.has /\ m # "GET" THEN body ELSE NoBody

\* config.body of proxyToLunchWithAPI; the methods of Node are upper case
forwardedBody(m, body) ==
    IF body.has /\ m \in methodsWithBody THEN body ELSE NoBody

\* mutant: a request without the header is forwarded all the same
missingApiKey_never(r) == FALSE

\* !authHeader of the route
missingApiKey(r) == ~TruthyHeader(r.authorization)

\* the request that proxyToLunchWithAPI hands to fetch
proxyToLunchWithAPI(e, m, apiKey, userId, body) ==
    [endpoint |-> e, method |-> m, authorization |-> apiKey,
     userId |-> IF TruthyHeader(userId) THEN userId ELSE None,
     body |-> forwardedBody(m, body)]

\* a response of the upstream and a response of the route: the status, the
\* content-type header (None when there is none) and the body text
Answer(status, contentType, text) ==
    [given |-> TRUE, status |-> status, contentType |-> contentType,
     text |-> text]

\* mutant: the relayed response is always labelled as JSON
relay_jsontype(u) == Answer(u.status, Some(<<"j", "s", "o", "n">>), u.text)

\* res.status(response.status), res.setHeader("content-type", ...) when the
\* upstream has one, and res.send(responseText) or res.end()
relay(u) == Answer(u.status, u.contentType, u.text)

\* no request has reached the route
ProxyIdle ==
    /\ req = [received |-> FALSE, method |-> "GET", url |-> <<>>,
              authorization |-> None, userId |-> None, body |-> NoBody]
    /\ upstream = <<>>
    /\ relayed = [given |-> FALSE, status |-> 0, contentType |-> None,
                  text |-> <<>>]
    /\ res = relayed
    /\ proxy = "idle"

\* the requests that reach the route: each method, a path with and without a
\* query string and one that holds the prefix twice, the two headers absent,
\* empty and set, no body and two bodies
IncomingRequests ==
    {Incoming(m, ApiPrefix \o url, a, u, b) :
        m \in {"GET", "HEAD", "DELETE", "PUT", "POST", "PATCH", "OPTIONS"},
        url \in {Slash \o Scene, Slash \o Scene \o Query,
                 ApiPrefix \o Slash \o Scene},
        a \in {None, Some(<<>>), Some(<<"B", "e", "a", "r", "e", "r", " ", "t">>)},
        u \in {None, Some(<<>>), Some(IdA)},
        b \in {NoBody, Body(0), Body(1)}}

\* the responses of the upstream
UpstreamAnswers ==
    {Answer(st, ct, t) :
        st \in {200, 204, Unauthorized, 404, 500},
        ct \in {None, Some(<<"j", "s", "o", "n">>), Some(<<"h", "t", "m", "l">>)},
        t \in {<<>>, <<"x">>}}

\* ------------------------------------------------------------------------
\* State machine of the API client
\* ------------------------------------------------------------------------
AuthIdle ==
    /\ ls = EmptyStorage
    /\ session = NoSession
    /\ inFlight = 0
    /\ last = NoOutcome
    /\ switched = 0 - 1
    /\ again = FALSE
    /\ peak = 0
    /\ warned = FALSE
    /\ fresh = FALSE
    /\ signedOut = FALSE

InitClient ==
    /\ endpoint \in Endpoints
    /\ method = "GET"
    /\ results = <<>>
    /\ returned = NoValue
    /\ rpc = "idle"
    /\ response = NoResponse
    /\ raised = "none"
    /\ api = "none"
    /\ sent = NoFetch
    /\ handler = FALSE
    /\ handlerCalls = 0
    /\ app = AppLoading
    /\ ProxyIdle
    /\ AuthIdle

\* one call of request() that received a 2xx body { results: rs }
Request(m, rs) ==
    /\ rpc = "idle"
    /\ method' = m
    /\ results' = rs
    /\ returned' = Unwrap(endpoint, m, rs)
    /\ rpc' = "done"
    /\ UNCHANGED <<endpoint, response, raised, api>>
    /\ UNCHANGED <<sent, handler, handlerCalls, app, ProxyVars, AuthVars>>

NextClient == \E m \in Methods, rs \in ResultLists : Request(m, rs)

SpecClient == InitClient /\ [][NextClient]_vars

\* data.results when the body of resp is parsed and holds an array there
ResultsOf(resp) ==
    IF IsOk(resp.status) /\ resp.text.kind = "json"
        /\ resp.text.data.kind = "envelope"
        /\ resp.text.data.results.kind = "array"
    THEN resp.text.data.results.arr
    ELSE <<>>

\* cognitoAuth.signOut() as App calls it
SignsOut ==
    /\ session' = NoSession
    /\ ls' = EmptyStorage
    /\ last' = Outcome("signOut", "ok", 0, None, NoResolution)
    /\ switched' = 0 - 1
    /\ again' = FALSE
    /\ warned' = FALSE
    /\ signedOut' = TRUE
    /\ UNCHANGED <<inFlight, peak, fresh>>

\* mutant: the handler opens the login dialog and leaves the session alone
handleSessionExpired_dialogonly ==
    /\ UNCHANGED AuthVars
    /\ app' = [app EXCEPT !.loginDialogOpen = TRUE]

\* handleSessionExpired of App
handleSessionExpired ==
    /\ SignsOut
    /\ app' = [app EXCEPT !.isAuthenticated = FALSE, !.loginDialogOpen = TRUE]

\* mutant: the handler is called for every response that is not ok
AfterResponse_everyfailure(resp) ==
    IF ~IsOk(resp.status) /\ handler
    THEN /\ handlerCalls' = handlerCalls + 1
         /\ handleSessionExpired
    ELSE UNCHANGED <<AuthVars, app, handlerCalls>>

\* the call of onSessionExpired in the 401 branch of request()
AfterResponse(resp) ==
    IF resp.status = Unauthorized /\ handler
    THEN /\ handlerCalls' = handlerCalls + 1
         /\ handleSessionExpired
    ELSE UNCHANGED <<AuthVars, app, handlerCalls>>

\* request(e, m) from the moment fetch resolves with resp
Completes(e, m, resp) ==
    LET c == Respond(e, m, resp)
    IN  /\ method' = m
        /\ response' = resp
        /\ results' = ResultsOf(resp)
        /\ returned' = c.value
        /\ raised' = c.raised
        /\ rpc' = IF c.raised = "none" THEN "done" ELSE "thrown"

\* one call of request() that received any response
RequestResponds(m, resp) ==
    /\ rpc = "idle"
    /\ Completes(endpoint, m, resp)
    /\ AfterResponse(resp)
    /\ UNCHANGED <<endpoint, api, sent, handler, ProxyVars>>

NextResponses ==
    \E m \in Methods, resp \in Responses : RequestResponds(m, resp)

SpecResponses == InitClient /\ [][NextResponses]_vars

\* one call of a read method of the client
ReadCall(name, id, resp) ==
    /\ rpc = "idle"
    /\ api' = name
    /\ endpoint' = EndpointOf(name, id)
    /\ Completes(EndpointOf(name, id), "GET", resp)
    /\ AfterResponse(resp)
    /\ UNCHANGED <<sent, handler, ProxyVars>>

NextReads ==
    \E name \in ReadMethods, id \in EntityIds, resp \in Responses :
        ReadCall(name, id, resp)

\* ------------------------------------------------------------------------
\* State machine of CognitoAuthService
\* ------------------------------------------------------------------------
ClientIdle ==
    /\ endpoint = Slash
    /\ method = "GET"
    /\ results = <<>>
    /\ returned = NoValue
    /\ rpc = "idle"
    /\ response = NoResponse
    /\ raised = "none"
    /\ api = "none"
    /\ sent = NoFetch
    /\ handler = FALSE
    /\ handlerCalls = 0
    /\ app = AppLoading
    /\ ProxyIdle

\* what the service leaves alone: the client, App and the proxy
ClientVars ==
    <<endpoint, method, results, returned, rpc, response, raised, api,
      sent, handler, handlerCalls, app, ProxyVars>>

\* a first page load: nothing persisted, nobody signed in
Init ==
    /\ ClientIdle
    /\ ls = EmptyStorage
    /\ session = NoSession
    /\ inFlight = 0
    /\ last = NoOutcome
    /\ switched = 0 - 1
    /\ again = FALSE
    /\ peak = 0
    /\ warned = FALSE
    /\ fresh = FALSE
    /\ signedOut = FALSE

\* a page load over what earlier use left behind: any content of the
\* selected-index key, with or without a Cognito session that is still valid
InitStored ==
    /\ ClientIdle
    /\ ls \in {[EmptyStorage EXCEPT !.selectedIndex = v] : v \in StoredIndexes}
    /\ session \in {NoSession} \cup {ValidSession(p) : p \in Payloads}
    /\ inFlight = 0
    /\ last = NoOutcome
    /\ switched = 0 - 1
    /\ again = FALSE
    /\ peak = 0
    /\ warned = FALSE
    /\ fresh = FALSE
    /\ signedOut = FALSE

\* a page load with the Cognito session of a user with any claim set
InitClaims ==
    /\ ClientIdle
    /\ ls = EmptyStorage
    /\ session \in {ValidSession(p) : p \in ClaimPayloads}
    /\ inFlight = 0
    /\ last = NoOutcome
    /\ switched = 0 - 1
    /\ again = FALSE
    /\ peak = 0
    /\ warned = FALSE
    /\ fresh = FALSE
    /\ signedOut = FALSE

\* signIn: the onSuccess callback of authenticateUser
SignInSuccess(username, p) ==
    LET r == Resolve(p, ls)
    IN  /\ session' = ValidSession(p)
        /\ ls' = StoreResolved([ls EXCEPT !.username = Some(username)], r)
        /\ last' = Outcome("signIn", "session", 0, ls.selectedIndex, r)
        /\ switched' = IF session.user /\ session.payload = p
                       THEN switched
                       ELSE 0 - 1
        /\ again' = (last.outcome = "session" /\ session.user
                                              /\ session.payload = p)
        /\ warned' = subjectWarning(p)
        /\ signedOut' = FALSE
        /\ UNCHANGED <<ClientVars, inFlight, peak, fresh>>

\* signIn: the onFailure callback rejects
SignInFailure ==
    /\ last' = Outcome("signIn", "rejected", 0, None, NoResolution)
    /\ again' = FALSE
    /\ warned' = FALSE
    /\ UNCHANGED <<ClientVars, ls, session, inFlight, switched, peak, fresh,
                   signedOut>>

\* the tokens of the session expire and cannot be refreshed
SessionExpires ==
    /\ session.user /\ session.valid
    /\ session' = [session EXCEPT !.valid = FALSE]
    /\ UNCHANGED <<ClientVars, ls, inFlight, last, switched, again, peak,
                   warned, fresh, signedOut>>

\* getCurrentSession when the pool has no current user: returns null
GetCurrentSessionNoUser ==
    /\ ~session.user
    /\ last' = Outcome("getCurrentSession", "null", 0, None, NoResolution)
    /\ again' = FALSE
    /\ warned' = FALSE
    /\ UNCHANGED <<ClientVars, ls, session, inFlight, switched, peak, fresh,
                   signedOut>>

\* getCurrentSession with a current user: getSession is called and its
\* callback is pending
GetCurrentSessionCall ==
    /\ session.user
    /\ inFlight < MaxInFlight
    /\ inFlight' = inFlight + 1
    /\ peak' = IF inFlight = 0 THEN 1 ELSE Max(peak, inFlight + 1)
    /\ fresh' = TRUE
    /\ UNCHANGED <<ClientVars, ls, session, last, switched, again, warned,
                   signedOut>>

\* the getSession callback of getCurrentSession
GetSessionCallback ==
    /\ inFlight > 0
    /\ inFlight' = inFlight - 1
    /\ IF ~(session.user /\ session.valid)
       THEN /\ last' = Outcome("getCurrentSession", "null", 0, None,
                               NoResolution)
            /\ ls' = ls
            /\ again' = FALSE
            /\ warned' = FALSE
            /\ signedOut' = signedOut
       ELSE LET r == Resolve(session.payload, ls)
            IN  /\ ls' = StoreResolved(ls, r)
                /\ last' = Outcome("getCurrentSession", "session", 0,
                                   ls.selectedIndex, r)
                /\ again' = (last.outcome = "session")
                /\ warned' = subjectWarning(session.payload)
                /\ signedOut' = FALSE
    /\ UNCHANGED <<ClientVars, session, switched, peak, fresh>>

\* switchUserAccount(index)
SwitchUserAccount(index) ==
    LET parsed == storedUserIds(ls)
    IN  /\ IF ~parsed.ok
           THEN /\ last' = Outcome("switchUserAccount", "SyntaxError", index,
                                   None, NoResolution)
                /\ UNCHANGED <<ls, switched, fresh>>
           ELSE IF invalidIndex(index, Len(parsed.val))
           THEN /\ last' = Outcome("switchUserAccount", "InvalidIndex", index,
                                   None, NoResolution)
                /\ UNCHANGED <<ls, switched, fresh>>
           ELSE /\ ls' = [ls EXCEPT
                            !.selectedIndex = Some(IntToString(index)),
                            !.userId = Some(At(parsed.val, index))]
                /\ last' = Outcome("switchUserAccount", "ok", index,
                                   None, NoResolution)
                /\ switched' = index
                /\ fresh' = FALSE
        /\ again' = FALSE
        /\ warned' = FALSE
        /\ UNCHANGED <<ClientVars, session, inFlight, peak, signedOut>>

\* mutant: signOut leaves the account list and the selected index behind
SignOut_keepslist ==
    /\ session' = NoSession
    /\ ls' = [ls EXCEPT !.username = None, !.userId = None]
    /\ last' = Outcome("signOut", "ok", 0, None, NoResolution)
    /\ switched' = 0 - 1
    /\ again' = FALSE
    /\ warned' = FALSE
    /\ signedOut' = TRUE
    /\ UNCHANGED <<ClientVars, inFlight, peak, fresh>>

\* signOut
SignOut ==
    /\ session' = NoSession
    /\ ls' = EmptyStorage
    /\ last' = Outcome("signOut", "ok", 0, None, NoResolution)
    /\ switched' = 0 - 1
    /\ again' = FALSE
    /\ warned' = FALSE
    /\ signedOut' = TRUE
    /\ UNCHANGED <<ClientVars, inFlight, peak, fresh>>

Next ==
    \/ \E u \in Usernames, p \in Payloads : SignInSuccess(u, p)
    \/ SignInFailure
    \/ SessionExpires
    \/ GetCurrentSessionNoUser
    \/ GetCurrentSessionCall
    \/ GetSessionCallback
    \/ \E i \in SwitchIndexes : SwitchUserAccount(i)
    \/ SignOut

\* session restore only, for every claim set
NextClaims ==
    \/ GetCurrentSessionCall
    \/ GetSessionCallback
    \/ \E i \in SwitchIndexes : SwitchUserAccount(i)

Spec == Init /\ [][Next]_vars

SpecStored == InitStored /\ [][Next]_vars

SpecClaims == InitClaims /\ [][NextClaims]_vars

\* the read methods of the client, called from a freshly loaded page
SpecReads == Init /\ [][NextReads]_vars

\* ------------------------------------------------------------------------
\* State machine of the proxy route
\* ------------------------------------------------------------------------
\* the route handler up to its await of proxyToLunchWithAPI
ProxyReceives(r) ==
    /\ proxy = "idle"
    /\ req' = r
    /\ IF missingApiKey(r)
       THEN /\ res' = Answer(Unauthorized, Some(<<"j", "s", "o", "n">>),
                             <<"M", "i", "s", "s", "i", "n", "g">>)
            /\ proxy' = "replied"
            /\ UNCHANGED upstream
       ELSE /\ upstream' = Append(upstream,
                              proxyToLunchWithAPI(endpointOfUrl(r.url),
                                                  r.method, r.authorization,
                                                  r.userId, r.body))
            /\ proxy' = "forwarded"
            /\ UNCHANGED res
    /\ UNCHANGED <<relayed, endpoint, method, results, returned, rpc, response, raised,
                   api, sent, handler, handlerCalls, app, AuthVars>>

\* the upstream answers and the route relays the answer
ProxyRelays(u) ==
    /\ proxy = "forwarded"
    /\ relayed' = u
    /\ res' = relay(u)
    /\ proxy' = "replied"
    /\ UNCHANGED <<req, upstream, endpoint, method, results, returned, rpc, response, raised,
                   api, sent, handler, handlerCalls, app, AuthVars>>

\* fetch or response.text() rejects: the catch block
ProxyFails ==
    /\ proxy = "forwarded"
    /\ res' = Answer(500, Some(<<"j", "s", "o", "n">>), <<"f", "a", "i", "l", "e", "d">>)
    /\ proxy' = "replied"
    /\ UNCHANGED <<req, upstream, relayed, endpoint, method, results, returned, rpc, response, raised,
                   api, sent, handler, handlerCalls, app, AuthVars>>

NextProxy ==
    \/ \E r \in IncomingRequests : ProxyReceives(r)
    \/ \E u \in UpstreamAnswers : ProxyRelays(u)
    \/ ProxyFails

SpecProxy == Init /\ [][NextProxy]_vars

\* ------------------------------------------------------------------------
\* State machine of the page: App, the requests of its pages and the service
\* ------------------------------------------------------------------------
\* App is mounted: the handler is registered and checkAuthentication found
\* no session, so the login dialog is open
InitPage ==
    /\ endpoint = Slash
    /\ method = "GET"
    /\ results = <<>>
    /\ returned = NoValue
    /\ rpc = "idle"
    /\ response = NoResponse
    /\ raised = "none"
    /\ api = "none"
    /\ sent = NoFetch
    /\ handler = TRUE
    /\ handlerCalls = 0
    /\ app = [AppLoading EXCEPT !.loginDialogOpen = TRUE]
    /\ ProxyIdle
    /\ AuthIdle

\* the onSuccess callback of the signIn that the login dialog called
LoginSignsIn(username, p) ==
    /\ app.loginDialogOpen
    /\ ~app.checking
    /\ SignInSuccess(username, p)

\* handleLogin of the dialog after its await: onLoginSuccess() calls
\* getCurrentSession, onOpenChange(false) closes the dialog
LoginContinues ==
    /\ app.loginDialogOpen
    /\ ~app.checking
    /\ last.op = "signIn"
    /\ last.outcome = "session"
    /\ app' = [app EXCEPT !.loginDialogOpen = FALSE, !.checking = TRUE]
    /\ UNCHANGED <<endpoint, method, results, returned, rpc, response, raised,
                   api, sent, handlerCalls, handler, ProxyVars, AuthVars>>

\* the getSession callback of a getCurrentSession call that the page awaits
SessionCallback ==
    /\ IF ~(session.user /\ session.valid)
       THEN /\ last' = Outcome("getCurrentSession", "null", 0, None,
                               NoResolution)
            /\ ls' = ls
            /\ again' = FALSE
            /\ warned' = FALSE
            /\ signedOut' = signedOut
       ELSE LET r == Resolve(session.payload, ls)
            IN  /\ ls' = StoreResolved(ls, r)
                /\ last' = Outcome("getCurrentSession", "session", 0,
                                   ls.selectedIndex, r)
                /\ again' = (last.outcome = "session")
                /\ warned' = subjectWarning(session.payload)
                /\ signedOut' = FALSE
    /\ UNCHANGED <<session, inFlight, switched, peak, fresh>>

\* handleLoginSuccess after its await of getCurrentSession
HandleLoginSuccess ==
    /\ app.checking
    /\ SessionCallback
    /\ app' = [app EXCEPT !.checking = FALSE,
                          !.isAuthenticated =
                              IF session.user /\ session.valid
                              THEN TRUE ELSE app.isAuthenticated]
    /\ UNCHANGED <<endpoint, method, results, returned, rpc, response, raised,
                   api, sent, handlerCalls, handler, ProxyVars>>

\* handleSignOut of App
HandleSignOut ==
    /\ app.isAuthenticated
    /\ SignsOut
    /\ app' = [app EXCEPT !.isAuthenticated = FALSE, !.loginDialogOpen = TRUE]
    /\ UNCHANGED <<endpoint, method, results, returned, rpc, response, raised,
                   api, sent, handlerCalls, handler, ProxyVars>>

\* a page calls request(e, m), which calls getCurrentSession
RequestBegins(e, m) ==
    /\ app.isAuthenticated
    /\ rpc \in {"idle", "done", "thrown"}
    /\ endpoint' = e
    /\ method' = m
    /\ results' = <<>>
    /\ returned' = NoValue
    /\ rpc' = "session"
    /\ response' = NoResponse
    /\ raised' = "none"
    /\ sent' = NoFetch
    /\ handlerCalls' = 0
    /\ UNCHANGED <<api, handler, app, ProxyVars, AuthVars>>

\* request() after its await of getCurrentSession: it throws without a
\* session, else it builds the headers and calls fetch
RequestHasSession ==
    /\ rpc = "session"
    /\ SessionCallback
    /\ IF ~(session.user /\ session.valid)
       THEN /\ raised' = "NotAuthenticated"
            /\ rpc' = "thrown"
            /\ sent' = sent
       ELSE /\ sent' = Fetch(endpoint, method,
                             userIdHeader(endpoint,
                                 Resolve(session.payload, ls).userId))
            /\ rpc' = "fetch"
            /\ raised' = raised
    /\ UNCHANGED <<endpoint, method, results, returned, response, api,
                   handler, handlerCalls, app, ProxyVars>>

\* request() after its await of fetch
RequestReturns(resp) ==
    /\ rpc = "fetch"
    /\ Completes(endpoint, method, resp)
    /\ AfterResponse(resp)
    /\ UNCHANGED <<endpoint, api, sent, handler, ProxyVars>>

NextPage ==
    \/ \E u \in Usernames, p \in Payloads : LoginSignsIn(u, p)
    \/ LoginContinues
    \/ HandleLoginSuccess
    \/ HandleSignOut
    \/ \E e \in {Slash \o Scene, Slash \o UserMe,
                  Slash \o UserMe \o Slash \o Uuid},
          m \in {"GET", "POST"} : RequestBegins(e, m)
    \/ RequestHasSession
    \/ \E resp \in {Response(200, JsonText(Envelope(AsArray(<<1>>)))),
                     Response(Unauthorized, EmptyText),
                     Response(500, MalformedText)} : RequestReturns(resp)
    \/ \E i \in {0, 1} : SwitchUserAccount(i)
    \/ SessionExpires

SpecPage == InitPage /\ [][NextPage]_vars

\* ------------------------------------------------------------------------
\* Properties of the response unwrapping (checked under SpecClient)
\* ------------------------------------------------------------------------
\* the text after the last slash of the path
LastSegment(e) ==
    LET slashes == {i \in 1..Len(e) : e[i] = "/"}
    IN  IF slashes = {} THEN e
        ELSE SubSeq(e, (CHOOSE i \in slashes : \A j \in slashes : j <= i) + 1,
                    Len(e))

IsUuidText(t) == Len(t) = UuidLen /\ \A k \in 1..Len(t) : t[k] \in HexChars

\* the path ends with one UUID: its last segment is a UUID
EndsInOneUuid(e) == IsUuidText(LastSegment(e))

\* the classification rule of the specification
SpecificSingleResource(e) ==
    IF Includes(e, CastSegment)
    THEN Len(uuidMatches(e)) = 2
    ELSE EndsInOneUuid(e)

\* C1: the single element results[0] is returned if and only if results has
\* exactly one element and (the method is PUT or POST or the endpoint is a
\* specific single resource); otherwise the full sequence is returned. PUT
\* and POST with one element return the bare element whatever the path.
C1_UnwrapRule ==
    rpc = "done" =>
        LET single == Len(results) = 1
                      /\ (method \in {"PUT", "POST"}
                          \/ SpecificSingleResource(endpoint))
        IN  /\ single => returned = AsObject(results[1])
            /\ ~single => returned = AsArray(results)
            /\ (method \in {"PUT", "POST"} /\ Len(results) = 1)
                 => returned.kind = "object"

C1_Witness ==
    /\ rpc = "done"
    /\ method = "POST"
    /\ Len(results) = 1
    /\ ~SpecificSingleResource(endpoint)
    /\ returned = AsObject(results[1])

\* C2: without '/cast/', a GET with one result is unwrapped exactly when the
\* endpoint ends with one UUID; a collection path, a trailing slash or a
\* query string after the id leave the one-element sequence unchanged.
C2_TrailingUuid ==
    (rpc = "done" /\ method = "GET" /\ Len(results) = 1
        /\ ~Includes(endpoint, CastSegment)) =>
        returned = IF EndsInOneUuid(endpoint)
                   THEN AsObject(results[1])
                   ELSE AsArray(results)

C2_Witness ==
    /\ rpc = "done"
    /\ method = "GET"
    /\ Len(results) = 1
    /\ endpoint = Slash \o Word \o Slash \o Uuid
    /\ returned = AsObject(results[1])

\* C3: with '/cast/', a GET with one result returns the single element if and
\* only if exactly two UUIDs are present; '/cast/{sceneId}' (one UUID) and
\* every other UUID count return the one-element sequence unchanged.
C3_CastTwoUuids ==
    (rpc = "done" /\ method = "GET" /\ Len(results) = 1
        /\ Includes(endpoint, CastSegment)) =>
        /\ returned = IF Len(uuidMatches(endpoint)) = 2
                      THEN AsObject(results[1])
                      ELSE AsArray(results)
        /\ endpoint = CastSegment \o Uuid => returned = AsArray(results)
        /\ endpoint = CastSegment \o Uuid \o Slash \o Uuid
              => returned = AsObject(results[1])

C3_Witness ==
    /\ rpc = "done"
    /\ method = "GET"
    /\ Len(results) = 1
    /\ endpoint = CastSegment \o Uuid
    /\ returned = AsArray(results)

\* C4: when results does not have exactly one element it is returned
\* unchanged for every method and endpoint: empty stays empty, and a
\* multi-element results stays a sequence even for a specific resource or
\* PUT/POST.
C4_NotOnePassThrough ==
    (rpc = "done" /\ Len(results) # 1) => returned = AsArray(results)

C4_Witness ==
    /\ rpc = "done"
    /\ Len(results) > 1
    /\ method = "PUT"
    /\ SpecificSingleResource(endpoint)
    /\ returned = AsArray(results)

\* ------------------------------------------------------------------------
\* Properties of the account resolution
\* ------------------------------------------------------------------------
Resolved == last.outcome = "session"

\* the text of an empty JSON array
EmptyJsonArrayText(t) ==
    /\ Len(t) >= 2
    /\ t[1] = "["
    /\ t[Len(t)] = "]"
    /\ \A k \in 2..(Len(t) - 1) : t[k] = " "

\* the identifiers that the multi-account claim carries: the array itself,
\* the elements of a JSON-array string, else the trimmed non-empty segments
\* of the comma-delimited string
ClaimIds(acc) ==
    IF acc.t = "array" THEN acc.a
    ELSE IF acc.t = "string"
         THEN IF JsonParseArray(Trim(acc.s)).ok
              THEN JsonParseArray(Trim(acc.s)).val
              ELSE TrimAndDropEmpty(Split(Trim(acc.s)))
    ELSE <<>>

\* the multi-account claim yields no identifier: absent, empty, white space
\* and commas only, an empty array, or the text of an empty JSON array
YieldsNothing(acc) ==
    \/ acc.t = "absent"
    \/ acc.t = "array" /\ acc.a = <<>>
    \/ acc.t = "string" /\ \A k \in 1..Len(acc.s) : acc.s[k] \in {" ", ","}
    \/ acc.t = "string" /\ EmptyJsonArrayText(Trim(acc.s))

SingleOrSubject(p) ==
    IF p.userId.has /\ p.userId.s # <<>> THEN <<p.userId.s>> ELSE <<p.sub>>

\* C5: the resolver returns the identifiers of the first non-empty source in
\* the order multi-account claim, single-account claim, subject identifier,
\* and keeps the values of the winning source in their original order.
C5_FirstNonEmptySource ==
    Resolved =>
        last.availableUserIds =
            IF ClaimIds(session.payload.accounts) # <<>>
            THEN ClaimIds(session.payload.accounts)
            ELSE SingleOrSubject(session.payload)

\* C6: whenever the multi-account claim yields no identifier, the resolver
\* returns the one-element list of the single-account claim when it is
\* present, and of the subject identifier only when both others are empty.
C6_FallbackChain ==
    (Resolved /\ YieldsNothing(session.payload.accounts)) =>
        last.availableUserIds = SingleOrSubject(session.payload)

IsNumeral(s) == s # <<>> /\ \A k \in 1..Len(s) : IsDigit(s[k])

StoredMissing(v) == ~v.has
StoredNonNumeric(v) == v.has /\ \A k \in 1..Len(v.s) : ~IsDigit(v.s[k])
StoredNegative(v) ==
    /\ v.has
    /\ Len(v.s) >= 2
    /\ v.s[1] = "-"
    /\ IsNumeral(Tail(v.s))
    /\ ReadDigits(Tail(v.s), 0) > 0
StoredTooLarge(v, n) == v.has /\ IsNumeral(v.s) /\ ReadDigits(v.s, 0) >= n

\* C7 as stated: a persisted index that is missing, non-numeric, negative or
\* greater than or equal to N resolves to index 0 and activeId =
\* availableIds[0].
C7_OutOfRangeIsZero ==
    (Resolved /\ (\/ StoredMissing(last.stored)
                  \/ StoredNonNumeric(last.stored)
                  \/ StoredNegative(last.stored)
                  \/ StoredTooLarge(last.stored, Len(last.availableUserIds))))
    => (last.safeIndex = 0 /\ last.userId = last.availableUserIds[1])

\* C7 (amended): a persisted index that is missing, non-numeric or negative
\* resolves to index 0 and activeId = availableIds[0]; one that is greater
\* than or equal to N resolves to the last index N - 1 and activeId =
\* availableIds[N - 1].
C7_ClampedToEnds ==
    Resolved =>
        LET n == Len(last.availableUserIds)
        IN  /\ (\/ StoredMissing(last.stored)
                \/ StoredNonNumeric(last.stored)
                \/ StoredNegative(last.stored))
               => (last.safeIndex = 0
                   /\ last.userId = last.availableUserIds[1])
            /\ StoredTooLarge(last.stored, n)
               => (last.safeIndex = n - 1
                   /\ last.userId = last.availableUserIds[n])

C7_Witness ==
    /\ Resolved
    /\ Len(last.availableUserIds) >= 2
    /\ StoredTooLarge(last.stored, Len(last.availableUserIds))
    /\ last.safeIndex = Len(last.availableUserIds) - 1

\* C8: after every resolution, whatever was persisted before, the resulting
\* index lies in [0, availableIds.length - 1] and the returned activeId is
\* availableIds at that index, so it is a member of availableIds.
C8_IndexInRange ==
    Resolved =>
        LET n == Len(last.availableUserIds)
        IN  /\ last.safeIndex \in 0..(n - 1)
            /\ ls.selectedIndex = Some(IntToString(last.safeIndex))
            /\ last.userId = last.availableUserIds[last.safeIndex + 1]
            /\ \E k \in 1..n : last.availableUserIds[k] = last.userId

C8_Witness ==
    /\ Resolved
    /\ last.op = "getCurrentSession"
    /\ last.stored = Some(<<"7">>)
    /\ Len(last.availableUserIds) = 3
    /\ last.userId = last.availableUserIds[3]

\* the persisted availableIds
PersistedIds == storedUserIds(ls).val

\* C9: switching to an index outside [0, availableIds.length - 1] (index N on
\* a list of length N, any negative index) fails with the invalid-index
\* error and leaves the persisted selected index, active id and availableIds
\* unchanged.
C9_InvalidSwitchRejected ==
    [][(/\ last'.op = "switchUserAccount"
        /\ last'.arg \notin 0..(Len(PersistedIds) - 1))
       => (last'.outcome = "InvalidIndex" /\ ls' = ls)]_vars

C9_Witness ==
    /\ last.op = "switchUserAccount"
    /\ last.outcome = "InvalidIndex"
    /\ Len(PersistedIds) >= 2
    /\ last.arg = Len(PersistedIds)

\* C10: after a successful switch to index i the persisted selected index is
\* i and the persisted active id is availableIds[i]; every later resolution
\* with an unchanged claim set and no further switch or sign-out returns
\* activeId = availableIds[i].
C10_SwitchIsKept ==
    /\ (last.op = "switchUserAccount" /\ last.outcome = "ok") =>
          /\ ls.selectedIndex = Some(IntToString(last.arg))
          /\ (last.arg + 1) \in DOMAIN PersistedIds
          /\ ls.userId = Some(PersistedIds[last.arg + 1])
    /\ (Resolved /\ switched >= 0) =>
          /\ (switched + 1) \in DOMAIN last.availableUserIds
          /\ last.userId = last.availableUserIds[switched + 1]
          /\ ls.userId = Some(last.userId)

C10_Witness ==
    /\ Resolved
    /\ last.op = "getCurrentSession"
    /\ switched = 2
    /\ last.userId = last.availableUserIds[3]

\* C11: two resolutions in a row over an unchanged claim set, with no switch
\* between them, return the same availableIds and the same activeId, and the
\* second leaves the persisted store as the first left it, whatever the
\* selected-index key held when the page loaded.
C11_ResolveTwice ==
    [][(/\ Resolved
        /\ last'.outcome = "session"
        /\ session.user
        /\ session'.payload = session.payload)
       => (/\ last'.availableUserIds = last.availableUserIds
           /\ last'.userId = last.userId
           /\ last'.safeIndex = last.safeIndex
           /\ ls'.availableUserIds = ls.availableUserIds
           /\ ls'.selectedIndex = ls.selectedIndex
           /\ ls'.userId = ls.userId
           /\ (last'.op = "getCurrentSession" => ls' = ls))]_vars

\* a second resolution in a row, session restore, of three accounts, with the
\* index that the page found persisted and that no switch wrote
C11_Witness ==
    /\ again
    /\ Resolved
    /\ last.op = "getCurrentSession"
    /\ switched < 0
    /\ Len(last.availableUserIds) = 3
    /\ last.safeIndex = 2

\* the identifier lists that the claim carries, and their encodings
LogicalLists == {<<IdA>>, <<IdA, IdC>>, <<IdC, IdA>>}

RECURSIVE JoinWith(_, _)
JoinWith(parts, sep) ==
    IF parts = <<>> THEN <<>>
    ELSE IF Tail(parts) = <<>> THEN Head(parts)
    ELSE Head(parts) \o sep \o JoinWith(Tail(parts), sep)

JsonArrayTexts(ids) ==
    {<<"[">> \o JoinWith([i \in DOMAIN ids |-> Quoted(ids[i])], sep) \o <<"]">> :
        sep \in {<<",">>, <<",", " ">>}}

CommaTexts(ids) ==
    {JoinWith(ids, sep) : sep \in {<<",">>, <<",", " ">>}}
    \cup {<<" ">> \o JoinWith(ids, <<",">>) \o <<" ">>}

EncodingsOf(ids) ==
    {StrClaim(t) : t \in JsonArrayTexts(ids) \cup CommaTexts(ids)}
    \cup {ArrClaim(ids)}

\* C12: the JSON-array string, the comma-delimited string (for one
\* identifier the bare string) and the native array that carry the same
\* identifiers resolve to the same list, the list of those identifiers.
C12_EncodingsAgree ==
    \A ids \in LogicalLists :
        (Resolved /\ session.payload.accounts \in EncodingsOf(ids))
            => last.availableUserIds = ids

C12_Witness ==
    /\ Resolved
    /\ session.payload.accounts = StrClaim(JsonStringify(<<IdA, IdC>>))
    /\ last.availableUserIds = <<IdA, IdC>>

\* the claim is a string in brackets that JSON.parse rejects
MalformedJsonClaim(acc) ==
    /\ acc.t = "string"
    /\ Trim(acc.s) # <<>>
    /\ Head(Trim(acc.s)) = "["
    /\ ~JsonParseArray(Trim(acc.s)).ok

\* C13: a multi-account claim that begins with '[' and is no JSON never
\* makes the resolution fail: it completes with the non-empty list of the
\* trimmed, non-empty comma-separated segments of the trimmed string.
C13_MalformedJsonSplit ==
    (last.op = "getCurrentSession" /\ MalformedJsonClaim(session.payload.accounts))
        => /\ Resolved
           /\ last.availableUserIds # <<>>
           /\ last.availableUserIds =
                  TrimAndDropEmpty(Split(Trim(session.payload.accounts.s)))
           /\ session.payload.accounts.s = <<"[">> \o IdA \o <<",">> \o IdC \o <<"]">>
                  => last.availableUserIds = <<(<<"[">> \o IdA), (IdC \o <<"]">>)>>

C13_Witness ==
    /\ Resolved
    /\ session.payload.accounts = StrClaim(<<"[">> \o Quoted(IdA))
    /\ last.availableUserIds = <<(<<"[">> \o Quoted(IdA))>>

\* C14: after a completed resolution, sign-in or session restore, the
\* persisted store holds what the resolution returned: the list, the clamped
\* index and the active id.
C14_StoreIsResult ==
    Resolved =>
        /\ ls.availableUserIds.has
        /\ JsonParseArray(ls.availableUserIds.s).ok
        /\ JsonParseArray(ls.availableUserIds.s).val = last.availableUserIds
        /\ ls.selectedIndex.has
        /\ parseInt(ls.selectedIndex.s) = Num(last.safeIndex)
        /\ last.safeIndex \in 0..(Len(last.availableUserIds) - 1)
        /\ ls.userId = Some(last.userId)
        /\ last.userId = last.availableUserIds[last.safeIndex + 1]

\* a sign-in that found an index past the end and persisted the clamped one
C14_Witness ==
    /\ Resolved
    /\ last.op = "signIn"
    /\ last.stored = Some(<<"7">>)
    /\ last.safeIndex = 2
    /\ ls.selectedIndex = Some(<<"2">>)

\* C15: whenever a session restore has completed, however many were pending
\* at once and in whatever order they completed, the persisted store holds
\* the list of the claim set, an index within it and the identifier at that
\* index: what one resolution writes, never parts of two.
C15_LastWriteWins ==
    (Resolved /\ last.op = "getCurrentSession") =>
        LET ids == extractAllLwaiUserIds(session.payload)
            index == parseInt(GetItemOr(ls.selectedIndex, <<>>))
        IN  /\ ls.availableUserIds = Some(JsonStringify(ids))
            /\ ~index.nan
            /\ index.n \in 0..(Len(ids) - 1)
            /\ ls.selectedIndex = Some(IntToString(index.n))
            /\ ls.userId = Some(At(ids, index.n))
            /\ index.n = last.safeIndex

\* two restores were pending at once and both have completed, one after the
\* other
C15_Witness ==
    /\ inFlight = 0
    /\ peak >= 2
    /\ again
    /\ Resolved
    /\ last.op = "getCurrentSession"
    /\ Len(last.availableUserIds) >= 2

\* C25: a resolution writes the degraded-identity warning exactly when the
\* list it returns is the subject identifier alone, taken because neither
\* the multi-account nor the single-account claim supplied an id; no other
\* operation writes it.
C25_WarnsOnSubject ==
    /\ Resolved =>
          /\ warned <=> last.availableUserIds = <<session.payload.sub>>
          /\ warned => /\ YieldsNothing(session.payload.accounts)
                        /\ ~session.payload.userId.has
    /\ ~Resolved => ~warned

C25_Witness ==
    /\ Resolved
    /\ warned
    /\ session.payload.accounts = StrClaim(<<" ", ",", " ">>)
    /\ last.availableUserIds = <<SubClaim>>

\* the three resolver keys of the persisted store
AllAbsent ==
    ~ls.userId.has /\ ~ls.availableUserIds.has /\ ~ls.selectedIndex.has

AllPresentAndCoherent ==
    /\ ls.userId.has /\ ls.availableUserIds.has /\ ls.selectedIndex.has
    /\ JsonParseArray(ls.availableUserIds.s).ok
    /\ IsNumeral(ls.selectedIndex.s)
    /\ LET ids == JsonParseArray(ls.availableUserIds.s).val
           index == parseInt(ls.selectedIndex.s).n
       IN  /\ 0 <= index
           /\ index < Len(ids)
           /\ ls.userId.s = ids[index + 1]

\* C26: after every sequence of sign-in, session restore, switch (integer
\* index) and sign-out the persisted active id, list and selected index are
\* all absent, or all present with 0 <= index < length and active id =
\* list[index].
C26_StoreCoherent == AllAbsent \/ AllPresentAndCoherent

\* a switch to the last of three accounts
C26_Witness ==
    /\ AllPresentAndCoherent
    /\ last.op = "switchUserAccount"
    /\ last.outcome = "ok"
    /\ ls.selectedIndex = Some(<<"2">>)
    /\ Len(PersistedIds) = 3

\* C27: a session restore that was called before a successful switch to
\* index i and completes after it, over an unchanged claim set, keeps the
\* switch: it returns and persists index i and active id = list[i].
C27_SwitchNotLost ==
    (Resolved /\ last.op = "getCurrentSession" /\ switched >= 0 /\ ~fresh)
        => /\ (switched + 1) \in DOMAIN last.availableUserIds
           /\ last.safeIndex = switched
           /\ ls.selectedIndex = Some(IntToString(switched))
           /\ ls.userId = Some(last.availableUserIds[switched + 1])

C27_Witness ==
    /\ Resolved
    /\ last.op = "getCurrentSession"
    /\ switched = 1
    /\ ~fresh
    /\ Len(last.availableUserIds) = 3
    /\ ls.userId = Some(last.availableUserIds[2])

\* C28: signOut removes the four persisted keys; from then until a
\* resolution completes every switch fails with the invalid-index error and
\* changes nothing, and the resolution that completes next selects index 0.
C28_AfterSignOut ==
    [][/\ last'.op = "signOut" => ls' = EmptyStorage
       /\ (signedOut /\ last'.op = "switchUserAccount")
             => (last'.outcome = "InvalidIndex" /\ ls' = ls)
       /\ (signedOut /\ last'.outcome = "session")
             => /\ last'.safeIndex = 0
                /\ ls'.selectedIndex = Some(<<"0">>)
                /\ ls'.userId = Some(last'.availableUserIds[1])]_vars

\* after signOut the switch to the first account was refused
C28_Witness ==
    /\ signedOut
    /\ last.op = "switchUserAccount"
    /\ last.outcome = "InvalidIndex"
    /\ last.arg = 0
    /\ ls = EmptyStorage

\* ------------------------------------------------------------------------
\* Properties of request() over every response (checked under SpecResponses)
\* ------------------------------------------------------------------------
\* request() has completed on a response that is ok and whose body is JSON
ParsedOk == rpc # "idle" /\ IsOk(response.status) /\ response.text.kind = "json"

\* C16: when the parsed body is an object without a results key, request()
\* returns that object as it is, for every method and every endpoint.
C16_NoResultsKey ==
    (ParsedOk /\ response.text.data.kind = "object")
        => /\ rpc = "done"
           /\ raised = "none"
           /\ returned = AsObject(response.text.data.obj)

\* a POST to an endpoint that ends in a UUID, answered by a plain object
C16_Witness ==
    /\ ParsedOk
    /\ response.text.data = JsonObject(PlainObject)
    /\ method = "POST"
    /\ EndsWithSlashUuid(endpoint)
    /\ returned = AsObject(PlainObject)

\* C17: the interpretation of a parsed 2xx body never throws: for every
\* endpoint, every method and every body (results an array, results not an
\* array, no results key, null, a literal) request() returns a value.
C17_InterpreterTotal ==
    ParsedOk
        => /\ rpc = "done"
           /\ raised = "none"
           /\ returned.kind \in {"object", "array", "null", "true"}
           /\ response.text.data.kind = "null" => returned = AsNull
           /\ response.text.data = Envelope(AsNull) => returned = AsNull
           /\ response.text.data = Envelope(AsObject(PlainObject))
                  => returned = AsObject(PlainObject)

\* the body null is returned as null
C17_Witness ==
    /\ ParsedOk
    /\ response.text.data = JsonNull
    /\ rpc = "done"
    /\ returned = AsNull

\* C18: to a response whose status is not 2xx request() throws the error of
\* the status and returns nothing, whatever the body holds: the status is
\* looked at before the body is parsed or unwrapped.
C18_StatusFirst ==
    (rpc # "idle" /\ response.status \notin 200..299)
        => /\ rpc = "thrown"
           /\ returned = NoValue
           /\ raised = IF response.status = 401 THEN "SessionExpired"
                       ELSE "ApiRequestFailed"

\* a failed response whose body is no JSON is reported by its status
C18_Witness ==
    /\ rpc = "thrown"
    /\ response.status = 500
    /\ response.text = MalformedText
    /\ raised = "ApiRequestFailed"

\* ------------------------------------------------------------------------
\* Properties of the read methods (checked under SpecReads)
\* ------------------------------------------------------------------------
\* a read method has completed on an envelope whose results is an array
ReadResults ==
    /\ rpc # "idle"
    /\ IsOk(response.status)
    /\ response.text.kind = "json"
    /\ response.text.data.kind = "envelope"
    /\ response.text.data.results.kind = "array"

\* C19: getCharacter, getScene, getUserProfile and getUserAccount return the
\* entity itself, not an array, whenever results is a one-element array.
C19_SingleReads ==
    (ReadResults /\ api \in SingleReads /\ Len(results) = 1)
        => returned = AsObject(results[1])

\* C20: getCharacters, getScenes, getCastMembers, getStories and
\* getStoryCastLinks return the sequence of results for every length of
\* results, also when it holds exactly one entity.
C20_CollectionReads ==
    (ReadResults /\ api \in CollectionReads)
        => /\ returned = AsArray(results)
           /\ results = response.text.data.results.arr

\* the cast of a scene that has one member
C20_Witness ==
    /\ ReadResults
    /\ api = "getCastMembers"
    /\ endpoint = CastSegment \o Uuid
    /\ Len(results) = 1
    /\ returned = AsArray(results)

\* ------------------------------------------------------------------------
\* Properties of the proxy route (checked under SpecProxy)
\* ------------------------------------------------------------------------
\* C21: the proxy sends no body upstream for GET, HEAD and DELETE, whatever
\* body the incoming request carried; an upstream request has a body only
\* when the method is PUT, POST or PATCH.
C21_BodyByMethod ==
    \A k \in DOMAIN upstream :
        /\ req.method \in {"GET", "HEAD", "DELETE"} => ~upstream[k].body.has
        /\ upstream[k].body.has
              => /\ req.method \in {"PUT", "POST", "PATCH"}
                 /\ upstream[k].body = req.body

\* a DELETE that came with a body went upstream without it
C21_Witness ==
    /\ Len(upstream) = 1
    /\ req.method = "DELETE"
    /\ req.body = Body(1)
    /\ ~upstream[1].body.has

AfterPrefix(url) == SubSeq(url, Len(ApiPrefix) + 1, Len(url))

\* what the upstream request of req has to be, but for the user id header
ForwardedAsReceived(userId) ==
    /\ Len(upstream) = 1
    /\ upstream[1].method = req.method
    /\ upstream[1].endpoint = AfterPrefix(req.url)
    /\ upstream[1].authorization = req.authorization
    /\ upstream[1].userId = userId

\* C23 as stated: every incoming request that has an Authorization header
\* is forwarded once with its method, its path and query after the prefix,
\* its Authorization value and its X-LWAI-User-Id header, if it has one.
C23_ForwardsEveryHeader ==
    (req.received /\ req.authorization.has) => ForwardedAsReceived(req.userId)

\* C23: every incoming request whose Authorization header is not empty is
\* forwarded once with its method, its path and query after the prefix and
\* its Authorization value; the upstream request has the X-LWAI-User-Id of
\* the incoming one when that is present and not empty, and none otherwise.
C23_ForwardsNonEmpty ==
    (req.received /\ req.authorization.has /\ req.authorization.s # <<>>)
        => ForwardedAsReceived(IF req.userId.has /\ req.userId.s # <<>>
                               THEN req.userId
                               ELSE None)

\* a request with a query string and a user id was forwarded
C23_Witness ==
    /\ req.received
    /\ req.url = ApiPrefix \o Slash \o Scene \o Query
    /\ req.userId = Some(IdA)
    /\ Len(upstream) = 1
    /\ upstream[1].endpoint = Slash \o Scene \o Query
    /\ upstream[1].userId = Some(IdA)

\* C30: an incoming request without an Authorization header is answered
\* with status 401 and not forwarded; an upstream request is made only for
\* a request that has the header.
C30_NoKeyNoForward ==
    /\ (req.received /\ ~req.authorization.has)
          => /\ proxy = "replied"
             /\ res.given
             /\ res.status = 401
             /\ upstream = <<>>
    /\ upstream # <<>> => req.authorization.has

C30_Witness ==
    /\ req.received
    /\ ~req.authorization.has
    /\ req.method = "POST"
    /\ res.status = 401
    /\ upstream = <<>>

\* ------------------------------------------------------------------------
\* Properties of the requests of the page
\* ------------------------------------------------------------------------
DiscoveryEndpoint(e) == StartsWith(e, Slash \o UserMe)

\* the fetch that request() makes after its session was resolved
FetchIsMade == rpc = "session" /\ rpc' = "fetch"

Receives401 == rpc = "fetch" /\ rpc' # "fetch" /\ response'.status = Unauthorized

\* C29: when a request receives 401, the registered handler is called once
\* for that request and the client raises the session-expired error; the
\* handler signs the user out, so the persisted identity is cleared, the
\* application is unauthenticated with the login dialog open, and no value is
\* returned to the caller.
C29_SessionExpired ==
    [][/\ (Receives401 /\ handler) =>
            /\ handlerCalls = 0
            /\ handlerCalls' = 1
            /\ rpc' = "thrown"
            /\ raised' = "SessionExpired"
            /\ returned' = NoValue
            /\ ls' = EmptyStorage
            /\ session' = NoSession
            /\ ~app'.isAuthenticated
            /\ app'.loginDialogOpen
       /\ handlerCalls' <= 1]_vars

\* a 401 reached an authenticated page whose login dialog was closed
C29_Witness ==
    /\ rpc = "thrown"
    /\ response.status = Unauthorized
    /\ raised = "SessionExpired"
    /\ handlerCalls = 1
    /\ last.op = "signOut"
    /\ ls = EmptyStorage
    /\ app.loginDialogOpen
    /\ ~app.isAuthenticated

====
